---------------------------- MODULE Spec2Model ----------------------------
(***************************************************************************)
(* Model of src/src/lib/figlet.tsx: the useFiglet hook (asynchronous       *)
(* generation with a string held in React state), the useFigletSync hook   *)
(* (synchronous generation in a memo) and the Figlet component's choice of *)
(* the displayed string.  The text-art generator (the figlet library) and  *)
(* the terminal dimension provider are the environment: the generator's    *)
(* outcome for a call and the moment its callback is delivered are chosen  *)
(* nondeterministically.                                                   *)
(***************************************************************************)
EXTENDS Integers, Sequences, FiniteSets, TLC

VARIABLES
    hook,           \* what is mounted: "useFiglet", "useFigletSync" or the
                    \* component "Figlet", which calls useFiglet
    props,          \* the props of the mounted component / arguments of the hook
    terminalWidth,  \* useTerminalDimensions().width
    asciiArt,       \* useFiglet: useState<string>('')
    pending,        \* figlet.text calls whose callback has not been delivered
    issued,         \* number of figlet.text calls made so far (ids 1..issued)
    lastCall,       \* arguments of the most recent generator invocation
    writer,         \* id of the request whose callback last called setAsciiArt
    errorLog,       \* console.error calls of useFiglet, per request id
    syncArt,        \* useFigletSync: the memoised return value
    syncRaised,     \* useFigletSync: whether an exception left the hook
    syncLog,        \* number of console.error calls of useFigletSync
    syncOutcomes,   \* what each figlet.textSync call made so far did, in order
    fontCalls,      \* getFigletFonts: the promises returned so far, in order
    shim,           \* bin/atm.cjs: the launcher process
    last            \* name of the step taken last

vars == <<hook, props, terminalWidth, asciiArt, pending, issued, lastCall,
          writer, errorLog, syncArt, syncRaised, syncLog, syncOutcomes,
          fontCalls, shim, last>>

asyncVars == <<asciiArt, pending, issued, writer, errorLog>>
syncVars == <<syncArt, syncRaised, syncLog, syncOutcomes>>
hookVars == <<hook, props, terminalWidth, lastCall>>
processVars == <<fontCalls, shim>>

-----------------------------------------------------------------------------
(* Bounds of the model *)

MaxRequests == 3
MaxSyncCalls == 2
MaxFontCalls == 3

-----------------------------------------------------------------------------
(* Values *)

\* An omitted (undefined) prop, and a supplied one.
Undefined == <<>>
Some(v) == <<v>>
Get(o) == o[1]

\* JavaScript numbers used as responsive values, kept as exact fractions
\* num/den (all of them dyadic, so the double arithmetic of the code is exact).
Num(n, d) == [type |-> "number", num |-> n, den |-> d]
Bool(b) == [type |-> "boolean", b |-> b]
NoValue == [type |-> "undefined"]

Opt(S) == {Undefined} \cup {Some(v) : v \in S}

\* The inputs the environment chooses from.
Texts == {"", "Hello", "Hi"}
Fonts == {"Big"}
Layouts == {"full"}
Fallbacks == {"Loading..."}
FixedWidths == {0, 40}
TerminalWidths == {7, 80, 100}
ResponsiveNumbers ==
    {Num(-1, 1), Num(0, 1), Num(1, 128), Num(1, 2), Num(3, 4), Num(1, 1),
     Num(3, 2)}
ResponsiveValues == {NoValue, Bool(FALSE), Bool(TRUE)} \cup ResponsiveNumbers

-----------------------------------------------------------------------------
(* The external generator *)

\* What a successful generator produces for a text.
Art(text) == "ART:" \o text

Failure == [err |-> TRUE]
Success(result) == [err |-> FALSE, result |-> result]

\* figlet.text(text, options, callback): the (err, result) it will report.
Outcomes(text) == {Failure, Success(""), Success(Art(text))}

\* figlet.textSync(text, options): throws, or returns a string.
SyncOutcomes(text) == {Failure, Success(""), Success(Art(text))}

-----------------------------------------------------------------------------
(* useFiglet / useFigletSync: destructuring and the effective width *)

\* `x = d` in a destructuring pattern: the default replaces undefined only.
Default(o, d) == IF o = Undefined THEN d ELSE Get(o)

PropFont(p) == Default(p.font, "Standard")
PropHorizontalLayout(p) == Default(p.horizontalLayout, "default")
PropVerticalLayout(p) == Default(p.verticalLayout, "default")

\* Variant: `whitespaceBreak || true` replaces an explicit false as well.
PropWhitespaceBreak_OrTrue(p) ==
    IF p.whitespaceBreak = Some(FALSE) THEN TRUE
    ELSE Default(p.whitespaceBreak, TRUE)

PropWhitespaceBreak(p) == Default(p.whitespaceBreak, TRUE)
PropResponsive(p) ==
    IF p.responsive.type = "undefined" THEN Bool(FALSE) ELSE p.responsive

\* `if (responsive)`: JavaScript truthiness of a boolean or a number.
Truthy(r) ==
    \/ r.type = "boolean" /\ r.b
    \/ r.type = "number" /\ r.num # 0

\* Math.min(1, Math.max(0, percentage))
Clamp01(r) ==
    IF r.num <= 0 THEN Num(0, 1)
    ELSE IF r.num >= r.den THEN Num(1, 1)
    ELSE r

\* Math.floor(terminalWidth * c) for a fraction c >= 0
FloorTimes(tw, c) == (tw * c.num) \div c.den

\* The useMemo of effectiveWidth: Some(width), or Undefined.
EffectiveWidth(p, tw) ==
    LET responsive == PropResponsive(p)
    IN  IF Truthy(responsive)
        THEN LET percentage ==
                     IF responsive.type = "number" THEN responsive ELSE Num(1, 1)
             IN  Some(FloorTimes(tw, Clamp01(percentage)))
        ELSE p.width

\* Variant: `if (effectiveWidth)` in place of `!== undefined` drops a width
\* of 0.
FigletOptions_TruthyWidth(p, tw) ==
    LET effectiveWidth == EffectiveWidth(p, tw)
    IN  IF effectiveWidth # Undefined /\ Get(effectiveWidth) # 0
        THEN [font |-> PropFont(p),
              horizontalLayout |-> PropHorizontalLayout(p),
              verticalLayout |-> PropVerticalLayout(p),
              whitespaceBreak |-> PropWhitespaceBreak(p),
              width |-> Get(effectiveWidth)]
        ELSE [font |-> PropFont(p),
              horizontalLayout |-> PropHorizontalLayout(p),
              verticalLayout |-> PropVerticalLayout(p),
              whitespaceBreak |-> PropWhitespaceBreak(p)]

\* figletOptions: width is set only if there is one.
FigletOptions(p, tw) ==
    LET effectiveWidth == EffectiveWidth(p, tw)
    IN  IF effectiveWidth # Undefined
        THEN [font |-> PropFont(p),
              horizontalLayout |-> PropHorizontalLayout(p),
              verticalLayout |-> PropVerticalLayout(p),
              whitespaceBreak |-> PropWhitespaceBreak(p),
              width |-> Get(effectiveWidth)]
        ELSE [font |-> PropFont(p),
              horizontalLayout |-> PropHorizontalLayout(p),
              verticalLayout |-> PropVerticalLayout(p),
              whitespaceBreak |-> PropWhitespaceBreak(p)]

\* Variant: effectiveWidth left out of the dependency array.
Deps_NoWidth(p, tw) ==
    <<p.text, PropFont(p), PropHorizontalLayout(p), PropVerticalLayout(p),
      PropWhitespaceBreak(p)>>

\* Variant: the terminal width itself in the dependency array.
Deps_TerminalWidth(p, tw) ==
    <<p.text, PropFont(p), PropHorizontalLayout(p), PropVerticalLayout(p),
      tw, EffectiveWidth(p, tw), PropWhitespaceBreak(p)>>

\* The dependency array of the effect (useFiglet) and of the memo
\* (useFigletSync).
Deps(p, tw) ==
    <<p.text, PropFont(p), PropHorizontalLayout(p), PropVerticalLayout(p),
      EffectiveWidth(p, tw), PropWhitespaceBreak(p)>>

\* The arguments of a generator invocation made under props p.
Call(p, tw) == [text |-> p.text, options |-> FigletOptions(p, tw)]

\* Figlet: the component applies its own defaults and passes font, both
\* layouts, responsive, width and whitespaceBreak on to useFiglet.
FigletToHook(p) ==
    [p EXCEPT !.font = Some(PropFont(p)),
              !.horizontalLayout = Some(PropHorizontalLayout(p)),
              !.verticalLayout = Some(PropVerticalLayout(p)),
              !.responsive = PropResponsive(p),
              !.whitespaceBreak = Some(PropWhitespaceBreak(p))]

\* The arguments the mounted hook receives when the caller's props are p.
HookProps(p) == IF hook = "Figlet" THEN FigletToHook(p) ELSE p

\* Variant: setAsciiArt(result) without `|| text`.
CallbackValue_NoEmptyFallback(text, outcome) ==
    IF outcome.err THEN text ELSE outcome.result

\* The callback of figlet.text: the value it passes to setAsciiArt.
CallbackValue(text, outcome) ==
    IF outcome.err THEN text
    ELSE IF outcome.result = "" THEN text ELSE outcome.result

\* The callback of figlet.text: whether it calls console.error.
CallbackLogs(outcome) == outcome.err

\* Variant: the catch block logs and rethrows.
SyncGenerate_Rethrows(text, outcome) ==
    IF outcome.err
    THEN [value |-> "", logged |-> 1, raised |-> TRUE]
    ELSE [value |-> outcome.result, logged |-> 0, raised |-> FALSE]

\* useFigletSync's memo body, try { return figlet.textSync(...) } catch
\* { console.error(...); return text }: the value returned, the number of
\* console.error calls, and whether an exception leaves the hook.
SyncGenerate(text, outcome) ==
    IF outcome.err
    THEN [value |-> text, logged |-> 1, raised |-> FALSE]
    ELSE [value |-> outcome.result, logged |-> 0, raised |-> FALSE]

\* Variant: displayText = asciiArt ?? fallback ?? text (the held string is
\* never nullish)
DisplayText_Nullish(art, p) == art

\* Variant: displayText = asciiArt || text || fallback
DisplayText_TextFirst(art, p) ==
    IF art # "" THEN art
    ELSE IF p.text # "" THEN p.text
    ELSE IF p.fallback # Undefined THEN Get(p.fallback)
    ELSE p.text

\* Figlet: displayText = asciiArt || fallback || text
DisplayText(art, p) ==
    IF art # "" THEN art
    ELSE IF p.fallback # Undefined /\ Get(p.fallback) # "" THEN Get(p.fallback)
    ELSE p.text

-----------------------------------------------------------------------------
(* useFiglet: mount, re-render, callback *)

Request(id, text, outcome) == [id |-> id, text |-> text, outcome |-> outcome]

\* The props a component is mounted with when its text, options and fallback
\* are the inputs that vary: no sizing directive.
MountProps ==
    [text : Texts,
     font : Opt(Fonts),
     horizontalLayout : {Undefined},
     verticalLayout : {Undefined},
     responsive : {NoValue},
     width : {Undefined},
     whitespaceBreak : {Undefined},
     fallback : Opt(Fallbacks)]

\* The props a component is mounted with when the sizing directive and the
\* terminal width are the inputs that vary.
SizingProps ==
    [text : {"Hello"},
     font : {Undefined},
     horizontalLayout : {Undefined},
     verticalLayout : {Undefined},
     responsive : ResponsiveValues,
     width : Opt(FixedWidths),
     whitespaceBreak : {Undefined},
     fallback : {Undefined}]

\* The props a component is mounted with when only its text varies.
TextProps ==
    [text : Texts,
     font : {Undefined},
     horizontalLayout : {Undefined},
     verticalLayout : {Undefined},
     responsive : {NoValue},
     width : {Undefined},
     whitespaceBreak : {Undefined},
     fallback : {Undefined}]

\* The props a component is mounted with when text, font, width and the
\* terminal width vary, under no, a full or a half responsive directive.
InputsProps ==
    [text : {"Hello"},
     font : {Undefined},
     horizontalLayout : {Undefined},
     verticalLayout : {Undefined},
     responsive : {NoValue, Bool(TRUE), Num(1, 2)},
     width : {Undefined},
     whitespaceBreak : {Undefined},
     fallback : {Undefined}]

\* The props a Figlet component is mounted with when its text and fallback
\* vary, the fallback also being the empty string.
DisplayProps ==
    [text : Texts,
     font : {Undefined},
     horizontalLayout : {Undefined},
     verticalLayout : {Undefined},
     responsive : {NoValue},
     width : {Undefined},
     whitespaceBreak : {Undefined},
     fallback : Opt(Fallbacks \cup {""})]

\* The props a hook or component is mounted with when the generation options
\* vary.
OptionsProps ==
    [text : {"Hello"},
     font : Opt(Fonts),
     horizontalLayout : Opt(Layouts),
     verticalLayout : Opt(Layouts),
     responsive : {NoValue},
     width : {Undefined},
     whitespaceBreak : Opt(BOOLEAN),
     fallback : {Undefined}]

\* The props a component using useFigletSync is mounted with.
SyncProps ==
    [text : Texts,
     font : Opt(Fonts),
     horizontalLayout : {Undefined},
     verticalLayout : {Undefined},
     responsive : ResponsiveValues,
     width : Opt(FixedWidths),
     whitespaceBreak : {Undefined},
     fallback : {Undefined}]

\* The state of the hook that is not mounted.
SyncIdle ==
    /\ syncArt = ""
    /\ syncRaised = FALSE
    /\ syncLog = 0
    /\ syncOutcomes = <<>>

AsyncIdle ==
    /\ asciiArt = ""
    /\ issued = 0
    /\ pending = {}
    /\ writer = 0
    /\ errorLog = [i \in {} |-> 0]

\* getFigletFonts was not called and the launcher is not modelled.
ProcessIdle ==
    /\ fontCalls = <<>>
    /\ shim = [pc |-> "none"]

\* First render of useFiglet, called directly (h = "useFiglet") or by the
\* component (h = "Figlet"), with props from P: asciiArt is '', the effect
\* runs once.
MountHook(h, P) ==
    /\ hook = h
    /\ props \in P
    /\ terminalWidth \in TerminalWidths
    /\ asciiArt = ""
    /\ issued = 1
    /\ \E o \in Outcomes(props.text) : pending = {Request(1, props.text, o)}
    /\ lastCall = Call(HookProps(props), terminalWidth)
    /\ writer = 0
    /\ errorLog = [i \in {} |-> 0]
    /\ SyncIdle
    /\ ProcessIdle
    /\ last = "mount"

Mount(P) == MountHook("useFiglet", P)

\* First render of useFigletSync with props from P: the memo is computed.
MountSync(P) ==
    /\ hook = "useFigletSync"
    /\ props \in P
    /\ terminalWidth \in TerminalWidths
    /\ \E o \in SyncOutcomes(props.text) :
           /\ syncOutcomes = <<o>>
           /\ syncArt = SyncGenerate(props.text, o).value
           /\ syncLog = SyncGenerate(props.text, o).logged
           /\ syncRaised = SyncGenerate(props.text, o).raised
    /\ lastCall = Call(HookProps(props), terminalWidth)
    /\ AsyncIdle
    /\ ProcessIdle
    /\ last = "mount"

\* Variant: only `text` in the dependency array.
EffectRuns_TextOnly(p, tw) == p.text # props.text

\* Whether the effect (the memo) runs again after a render: some dependency
\* changed.
EffectRuns(p, tw) ==
    Deps(HookProps(p), tw) # Deps(HookProps(props), terminalWidth)

\* A render of useFiglet with props p and terminal width tw, followed by its
\* effect when a dependency changed: figlet.text is invoked, nothing else.
RenderAsync(p, tw) ==
    /\ IF EffectRuns(p, tw)
       THEN /\ issued < MaxRequests
            /\ issued' = issued + 1
            /\ \E o \in Outcomes(p.text) :
                   pending' = pending \cup {Request(issued + 1, p.text, o)}
            /\ lastCall' = Call(HookProps(p), tw)
       ELSE UNCHANGED <<issued, pending, lastCall>>
    /\ UNCHANGED <<asciiArt, writer, errorLog>>
    /\ UNCHANGED syncVars

\* A render of useFigletSync with props p and terminal width tw: the memo is
\* recomputed when a dependency changed.
RenderSync(p, tw) ==
    /\ IF EffectRuns(p, tw)
       THEN /\ Len(syncOutcomes) < MaxSyncCalls
            /\ \E o \in SyncOutcomes(p.text) :
                   /\ syncOutcomes' = Append(syncOutcomes, o)
                   /\ syncArt' = SyncGenerate(p.text, o).value
                   /\ syncLog' = syncLog + SyncGenerate(p.text, o).logged
                   /\ syncRaised' = (syncRaised \/ SyncGenerate(p.text, o).raised)
            /\ lastCall' = Call(HookProps(p), tw)
       ELSE UNCHANGED <<syncOutcomes, syncArt, syncLog, syncRaised, lastCall>>
    /\ UNCHANGED asyncVars

Render(p, tw) ==
    /\ props' = p
    /\ terminalWidth' = tw
    /\ hook' = hook
    /\ UNCHANGED processVars
    /\ IF hook = "useFigletSync" THEN RenderSync(p, tw) ELSE RenderAsync(p, tw)

SetText ==
    /\ \E t \in Texts \ {props.text} :
           Render([props EXCEPT !.text = t], terminalWidth)
    /\ last' = "SetText"

SetFont ==
    /\ \E f \in Opt(Fonts) \ {props.font} :
           Render([props EXCEPT !.font = f], terminalWidth)
    /\ last' = "SetFont"

SetHorizontalLayout ==
    /\ \E l \in Opt(Layouts) \ {props.horizontalLayout} :
           Render([props EXCEPT !.horizontalLayout = l], terminalWidth)
    /\ last' = "SetHorizontalLayout"

SetVerticalLayout ==
    /\ \E l \in Opt(Layouts) \ {props.verticalLayout} :
           Render([props EXCEPT !.verticalLayout = l], terminalWidth)
    /\ last' = "SetVerticalLayout"

SetWhitespaceBreak ==
    /\ \E b \in Opt(BOOLEAN) \ {props.whitespaceBreak} :
           Render([props EXCEPT !.whitespaceBreak = b], terminalWidth)
    /\ last' = "SetWhitespaceBreak"

SetResponsive ==
    /\ \E r \in ResponsiveValues \ {props.responsive} :
           Render([props EXCEPT !.responsive = r], terminalWidth)
    /\ last' = "SetResponsive"

SetWidth ==
    /\ \E w \in Opt(FixedWidths) \ {props.width} :
           Render([props EXCEPT !.width = w], terminalWidth)
    /\ last' = "SetWidth"

SetFallback ==
    /\ \E f \in Opt(Fallbacks) \ {props.fallback} :
           Render([props EXCEPT !.fallback = f], terminalWidth)
    /\ last' = "SetFallback"

\* The caller passes fallback="".
SetEmptyFallback ==
    /\ props.fallback # Some("")
    /\ Render([props EXCEPT !.fallback = Some("")], terminalWidth)
    /\ last' = "SetEmptyFallback"

\* The terminal is resized: useTerminalDimensions re-renders the hook.
Resize ==
    /\ \E tw \in TerminalWidths \ {terminalWidth} : Render(props, tw)
    /\ last' = "Resize"

\* The generator delivers the callback of request r (in any order).
Callback(r) ==
    /\ r \in pending
    /\ pending' = pending \ {r}
    /\ asciiArt' = CallbackValue(r.text, r.outcome)
    /\ writer' = r.id
    /\ errorLog' =
           IF CallbackLogs(r.outcome)
           THEN (r.id :> (IF r.id \in DOMAIN errorLog THEN errorLog[r.id] + 1 ELSE 1))
                    @@ errorLog
           ELSE errorLog
    /\ UNCHANGED <<hook, props, terminalWidth, issued, lastCall>>
    /\ UNCHANGED syncVars
    /\ UNCHANGED processVars

Deliver ==
    /\ \E r \in pending : Callback(r)
    /\ last' = "Deliver"

\* Variant: the generator delivers the callbacks in any order.
DeliverInOrder_AnyOrder ==
    /\ \E r \in pending : Callback(r)
    /\ last' = "DeliverInOrder"

\* The generator delivers the callback of the oldest outstanding request:
\* callbacks arrive in the order the requests were issued, once each.
DeliverInOrder ==
    /\ \E r \in pending :
           /\ \A q \in pending : r.id <= q.id
           /\ Callback(r)
    /\ last' = "DeliverInOrder"

\* No hook is mounted: the state in which only getFigletFonts or the launcher
\* acts.
NotMounted ==
    /\ hook = "none"
    /\ props = Undefined
    /\ terminalWidth = 80
    /\ lastCall = Undefined
    /\ AsyncIdle
    /\ SyncIdle

\* What figlet.fonts may report to its callback: an error or none (null), and
\* a font list or none.
FontErrors == {"EIO"}
FontLists == {<<>>, <<"Standard">>, <<"Standard", "Big">>}
FontReports == [err : Opt(FontErrors), fonts : Opt(FontLists)]

\* Variant: a reported list resolves the promise even when an error came
\* with it.
FontsSettle_ListFirst(report) ==
    IF report.fonts # Undefined
    THEN [state |-> "resolved", value |-> Get(report.fonts)]
    ELSE IF report.err # Undefined
         THEN [state |-> "rejected", value |-> Get(report.err)]
         ELSE [state |-> "resolved", value |-> <<>>]

\* The callback getFigletFonts hands to figlet.fonts: reject(err) when err is
\* set, else resolve(fonts || []).
FontsSettle(report) ==
    IF report.err # Undefined
    THEN [state |-> "rejected", value |-> Get(report.err)]
    ELSE [state |-> "resolved",
          value |-> IF report.fonts = Undefined THEN <<>> ELSE Get(report.fonts)]

\* getFigletFonts(): a new promise, figlet.fonts is called.
GetFigletFonts ==
    /\ Len(fontCalls) < MaxFontCalls
    /\ fontCalls' = Append(fontCalls, [state |-> "pending"])
    /\ last' = "GetFigletFonts"
    /\ UNCHANGED <<hookVars, asyncVars, syncVars, shim>>

\* figlet.fonts delivers its report for the i-th call.
FontsCallback ==
    /\ \E i \in DOMAIN fontCalls : \E report \in FontReports :
           /\ fontCalls[i].state = "pending"
           /\ fontCalls' =
                  [fontCalls EXCEPT ![i] =
                       FontsSettle(report) @@ [report |-> report]]
    /\ last' = "FontsCallback"
    /\ UNCHANGED <<hookVars, asyncVars, syncVars, shim>>

\* getFigletFonts, called up to MaxFontCalls times.
FontsInit ==
    /\ NotMounted
    /\ fontCalls = <<>>
    /\ shim = [pc |-> "none"]
    /\ last = "start"

FontsNext ==
    \/ GetFigletFonts
    \/ FontsCallback

FontsSpec == FontsInit /\ [][FontsNext]_vars

\* bin/atm.cjs.  The candidate locations of the bun binary, in the order
\* findBun tries them, and the global fallback.
Candidates == <<"node_modules/.bin/bun", "node_modules/.bin/bun.exe",
                "node_modules/bun/bin/bun">>
GlobalBun == "bun"

\* findBun, where `present` is the set of indices of the candidates that
\* exist: the first existing candidate, else "bun".
FindBunPath(present) ==
    IF present = {} THEN GlobalBun
    ELSE Candidates[CHOOSE i \in present : \A j \in present : i <= j]

\* What spawnSync may return: the runtime could not be started (error set),
\* the child exited with a status, or the child was ended by a signal
\* (status null).
SpawnErrors == {"ENOENT", "EACCES"}
ExitStatuses == {0, 1, 2, 130}
Signals == {"SIGINT", "SIGTERM", "SIGKILL"}
SpawnResults ==
    {[error |-> Some(e), status |-> Undefined, signal |-> Undefined] :
         e \in SpawnErrors}
    \cup {[error |-> Undefined, status |-> Some(n), signal |-> Undefined] :
              n \in ExitStatuses}
    \cup {[error |-> Undefined, status |-> Undefined, signal |-> Some(s)] :
              s \in Signals}

\* The end of the script: two messages and process.exit(1) when result.error
\* is set, else process.exit(result.status ?? 0).
ShimExit(result) ==
    IF result.error # Undefined
    THEN [exitCode |-> 1,
          stderr |-> <<"Failed to start ATM:", "Make sure Bun is installed.">>]
    ELSE [exitCode |-> IF result.status = Undefined THEN 0 ELSE Get(result.status),
          stderr |-> <<>>]

\* const bunPath = findBun().
FindBun ==
    /\ shim.pc = "start"
    /\ shim' = [shim EXCEPT !.pc = "found",
                            !.bunPath = FindBunPath(shim.present)]
    /\ last' = "FindBun"
    /\ UNCHANGED <<hookVars, asyncVars, syncVars, fontCalls>>

\* spawnSync(bunPath, ["run", entryPoint], ...) returns.
SpawnBun ==
    /\ shim.pc = "found"
    /\ \E result \in SpawnResults :
           shim' = [shim EXCEPT !.pc = "spawned", !.result = result]
    /\ last' = "SpawnBun"
    /\ UNCHANGED <<hookVars, asyncVars, syncVars, fontCalls>>

\* The launcher exits.
ExitShim ==
    /\ shim.pc = "spawned"
    /\ shim' = [shim EXCEPT !.pc = "exited",
                            !.exitCode = ShimExit(shim.result).exitCode,
                            !.stderr = ShimExit(shim.result).stderr]
    /\ last' = "ExitShim"
    /\ UNCHANGED <<hookVars, asyncVars, syncVars, fontCalls>>

\* The launcher, started in a package where any of the candidates exist.
ShimInit ==
    /\ NotMounted
    /\ fontCalls = <<>>
    /\ \E present \in SUBSET DOMAIN Candidates :
           shim = [pc |-> "start", present |-> present, bunPath |-> Undefined,
                   result |-> Undefined, exitCode |-> Undefined,
                   stderr |-> <<>>]
    /\ last = "start"

ShimNext ==
    \/ FindBun
    \/ SpawnBun
    \/ ExitShim

ShimSpec == ShimInit /\ [][ShimNext]_vars

\* useFiglet under changes of text, options and fallback.
Init == Mount(MountProps)

Next ==
    \/ SetText
    \/ SetFont
    \/ SetFallback
    \/ Deliver

Spec == Init /\ [][Next]_vars

\* useFiglet under changes of the sizing directive and of the terminal width.
SizingInit == Mount(SizingProps)

SizingNext ==
    \/ SetResponsive
    \/ SetWidth
    \/ Resize
    \/ Deliver

SizingSpec == SizingInit /\ [][SizingNext]_vars

\* useFigletSync under changes of text, font, sizing directive and terminal
\* width.
SyncInit == MountSync(SyncProps)

SyncNext ==
    \/ SetText
    \/ SetFont
    \/ SetResponsive
    \/ SetWidth
    \/ Resize

SyncSpec == SyncInit /\ [][SyncNext]_vars

\* useFiglet under changes of text, with a generator that completes every
\* request: each callback is eventually delivered.
FairInit == Mount(TextProps)

FairNext ==
    \/ SetText
    \/ Deliver

FairSpec == FairInit /\ [][FairNext]_vars /\ WF_vars(Deliver)

\* useFiglet under changes of text, font, width and terminal width; the
\* completions, which touch none of the arguments of an invocation, arrive in
\* issue order.
InputsInit == Mount(InputsProps)

InputsNext ==
    \/ SetText
    \/ SetFont
    \/ SetWidth
    \/ Resize
    \/ DeliverInOrder

InputsSpec == InputsInit /\ [][InputsNext]_vars

\* The Figlet component under changes of text and fallback, the empty
\* fallback included.
DisplayInit == Mount(DisplayProps)

DisplayNext ==
    \/ SetText
    \/ SetFallback
    \/ SetEmptyFallback
    \/ Deliver

DisplaySpec == DisplayInit /\ [][DisplayNext]_vars

\* useFiglet, useFigletSync and Figlet under changes of the generation
\* options.
OptionsInit ==
    \/ MountHook("useFiglet", OptionsProps)
    \/ MountHook("Figlet", OptionsProps)
    \/ MountSync(OptionsProps)

OptionsNext ==
    \/ SetFont
    \/ SetHorizontalLayout
    \/ SetVerticalLayout
    \/ SetWhitespaceBreak
    \/ Deliver

OptionsSpec == OptionsInit /\ [][OptionsNext]_vars

\* useFiglet with a generator that completes requests in issue order.
OrderedInit == Mount(MountProps)

OrderedNext ==
    \/ SetText
    \/ SetFont
    \/ SetFallback
    \/ DeliverInOrder

OrderedSpec == OrderedInit /\ [][OrderedNext]_vars

-----------------------------------------------------------------------------
(* Properties *)

\* The callback of request r is delivered in this step.
Delivers(r) == r \in pending /\ pending' = pending \ {r}

\* A render in this step ran the effect: a new request was issued.
Issues == issued' = issued + 1

\* Number of console.error calls made for request id.
Logged(id) == IF id \in DOMAIN errorLog THEN errorLog[id] ELSE 0

HasWidth(call) == "width" \in DOMAIN call.options

\* C1: a callback of a request that is not the latest issued one leaves the
\* held string unchanged.
C1_StaleCallbackDiscarded ==
    [][\A r \in pending :
          (Delivers(r) /\ r.id # issued) => asciiArt' = asciiArt]_vars

\* C2: when an input change restarts generation after an earlier generation
\* completed, the held string is cleared (the state is Pending again), so the
\* component shows the fallback, or the new text when there is none.
C2_InputChangeResetsToPending ==
    [][(Issues /\ writer # 0) =>
          /\ asciiArt' = ""
          /\ DisplayText(asciiArt', props') =
                 (IF props'.fallback # Undefined
                  THEN Get(props'.fallback) ELSE props'.text)]_vars

\* clamp(p, 0, 1) of a fraction p, as the specification states it.
Clamped(p) ==
    IF p.num * p.den < 0 THEN Num(0, 1)
    ELSE IF p.num > p.den THEN Num(1, 1)
    ELSE p

\* C3: for every numeric responsive value p and terminal width W the width
\* passed to the generator is floor(W * clamp(p, 0, 1)).
C3_ResponsiveFractionWidth ==
    props.responsive.type = "number" =>
        /\ HasWidth(lastCall)
        /\ lastCall.options.width =
               (terminalWidth * Clamped(props.responsive).num)
                   \div Clamped(props.responsive).den

\* C4: when the generator reports a failure for the request of the current
\* inputs, the failure is logged exactly once for it, the hook returns the
\* input text and the component displays the input text.
C4_FailureShowsInputText ==
    [][\A r \in pending :
          (Delivers(r) /\ r.outcome.err /\ r.id = issued) =>
              /\ Logged(r.id)' = 1
              /\ asciiArt' = props.text
              /\ DisplayText(asciiArt', props') = props.text]_vars

\* C5: a successful completion sets the held string to the generator's output,
\* or to the request's text if the output is empty; and every request that the
\* generator answers with "ART:<text>" leads to the hook returning "ART:<text>".
C5_SuccessReady ==
    /\ [][\A r \in pending :
             (Delivers(r) /\ ~r.outcome.err) =>
                 asciiArt' = (IF r.outcome.result = ""
                              THEN r.text ELSE r.outcome.result)]_vars
    /\ \A i \in 1..MaxRequests : \A t \in Texts :
           (Request(i, t, Success("ART:" \o t)) \in pending)
               ~> (writer = i /\ asciiArt = "ART:" \o t)

C5_Witness ==
    /\ last = "Deliver"
    /\ writer = issued
    /\ props.text = "Hello"
    /\ asciiArt = "ART:Hello"

\* C6: the displayed string follows the selection rule: before any completion
\* (Pending) it is the fallback if one is supplied, otherwise the input text;
\* after a completion that set the state to Ready(x) or FallbackShown(x) it
\* is x, the string the completion stored.
C6_DisplayRule ==
    /\ writer = 0 =>
           DisplayText(asciiArt, props) =
               (IF props.fallback # Undefined
                THEN Get(props.fallback) ELSE props.text)
    /\ writer # 0 => DisplayText(asciiArt, props) = asciiArt

\* C7: useFigletSync never lets an exception out; when the generator threw it
\* returns the input text, otherwise the generator's output; and it has logged
\* one failure per computation that threw.
C7_SyncFailureReturnsText ==
    LET n == Len(syncOutcomes)
    IN  /\ ~syncRaised
        /\ n >= 1
        /\ syncOutcomes[n].err => syncArt = props.text
        /\ ~syncOutcomes[n].err => syncArt = syncOutcomes[n].result
        /\ syncLog = Cardinality({i \in 1..n : syncOutcomes[i].err})

C7_Witness ==
    /\ Len(syncOutcomes) = 2
    /\ syncOutcomes[1].err
    /\ syncOutcomes[2].err
    /\ props.text = "Hello"
    /\ syncArt = "Hello"
    /\ syncLog = 2

\* The responsive prop is absent or false.
ResponsiveOff ==
    \/ props.responsive.type = "undefined"
    \/ props.responsive.type = "boolean" /\ ~props.responsive.b

\* C8: with a fixed width w (also w = 0) and responsive off, the width passed
\* to the generator is w, whatever the terminal width is and after any resize.
C8_FixedWidthPassed ==
    (ResponsiveOff /\ props.width # Undefined) =>
        /\ HasWidth(lastCall)
        /\ lastCall.options.width = Get(props.width)

C8_Witness ==
    /\ last = "Resize"
    /\ ResponsiveOff
    /\ props.width = Some(0)
    /\ HasWidth(lastCall)
    /\ lastCall.options.width = 0

\* C9: with responsive = true the width passed to the generator is the current
\* terminal width, the same as for a responsive fraction of 1.0.
C9_ResponsiveFullWidth ==
    (props.responsive.type = "boolean" /\ props.responsive.b) =>
        /\ HasWidth(lastCall)
        /\ lastCall.options.width = terminalWidth
        /\ Some(lastCall.options.width) =
               EffectiveWidth([props EXCEPT !.responsive = Num(1, 1)],
                              terminalWidth)

C9_Witness ==
    /\ last = "Resize"
    /\ props.responsive = Bool(TRUE)
    /\ terminalWidth = 100
    /\ lastCall.options.width = 100

\* C10: with neither responsive nor width given the options hold no width
\* entry; in every other case they hold a width entry equal to the resolved
\* width.
C10_WidthEntry ==
    IF ResponsiveOff /\ props.width = Undefined
    THEN /\ EffectiveWidth(props, terminalWidth) = Undefined
         /\ ~HasWidth(lastCall)
    ELSE /\ HasWidth(lastCall)
         /\ Some(lastCall.options.width) = EffectiveWidth(props, terminalWidth)

\* C11: when a fallback is provided and the generation for the current inputs
\* fails, the component displays the fallback string.
C11_FallbackShownOnError ==
    [][\A r \in pending :
          (Delivers(r) /\ r.outcome.err /\ r.id = issued
               /\ props.fallback # Undefined) =>
              DisplayText(asciiArt', props') = Get(props.fallback)]_vars

\* The responsive prop is true or a number in the documented range 0..1.
ResponsiveOn ==
    \/ props.responsive.type = "boolean" /\ props.responsive.b
    \/ /\ props.responsive.type = "number"
       /\ props.responsive.num >= 0
       /\ props.responsive.num <= props.responsive.den

\* C12: with responsive enabled the width prop is ignored: the options of the
\* last invocation are those of the same props with any other width prop.
C12_WidthIgnoredWhenResponsive ==
    ResponsiveOn =>
        \A w \in Opt(FixedWidths) :
            lastCall.options =
                FigletOptions([props EXCEPT !.width = w], terminalWidth)

\* The invocation the current inputs call for: the current text, the caller's
\* options with the documented defaults, and the current resolved width.
CurrentCall ==
    LET base == [font |-> IF props.font = Undefined
                          THEN "Standard" ELSE Get(props.font),
                 horizontalLayout |-> IF props.horizontalLayout = Undefined
                                      THEN "default"
                                      ELSE Get(props.horizontalLayout),
                 verticalLayout |-> IF props.verticalLayout = Undefined
                                    THEN "default"
                                    ELSE Get(props.verticalLayout),
                 whitespaceBreak |-> IF props.whitespaceBreak = Undefined
                                     THEN TRUE
                                     ELSE Get(props.whitespaceBreak)]
        resolved == EffectiveWidth(props, terminalWidth)
    IN  [text |-> props.text,
         options |-> IF resolved = Undefined
                     THEN base
                     ELSE base @@ [width |-> Get(resolved)]]

\* C13: every change of the text, of an option or of the resolved width makes
\* the hook invoke the generator again, and the last invocation always carries
\* the current text and the current merged options.
C13_ReinvokedWithCurrentInputs ==
    /\ [](lastCall = CurrentCall)
    /\ [][CurrentCall' # CurrentCall => Issues]_vars

C13_Witness ==
    /\ last = "Resize"
    /\ issued = 3
    /\ props.responsive = Num(1, 2)
    /\ props.text = "Hi"
    /\ terminalWidth = 7
    /\ lastCall.text = "Hi"
    /\ lastCall.options.width = 3

C15_OptionsPassedWithDefaults ==
    /\ lastCall.options.font =
           (IF props.font = Undefined THEN "Standard" ELSE Get(props.font))
    /\ lastCall.options.horizontalLayout =
           (IF props.horizontalLayout = Undefined
            THEN "default" ELSE Get(props.horizontalLayout))
    /\ lastCall.options.verticalLayout =
           (IF props.verticalLayout = Undefined
            THEN "default" ELSE Get(props.verticalLayout))
    /\ lastCall.options.whitespaceBreak =
           (IF props.whitespaceBreak = Undefined
            THEN TRUE ELSE Get(props.whitespaceBreak))
    /\ props.whitespaceBreak = Some(FALSE) =>
           lastCall.options.whitespaceBreak = FALSE

C15_Witness ==
    /\ hook = "Figlet"
    /\ last = "SetWhitespaceBreak"
    /\ props.whitespaceBreak = Some(FALSE)
    /\ props.font = Undefined
    /\ props.horizontalLayout = Some("full")
    /\ lastCall.options.whitespaceBreak = FALSE
    /\ lastCall.options.font = "Standard"
    /\ lastCall.options.horizontalLayout = "full"

\* C16: every settled promise of getFigletFonts is rejected with the reported
\* error when the library reported one; otherwise it is resolved with the
\* reported font list, or with the empty list when no list was reported; and
\* a promise is settled only by a report.
C16_FontsSettleByReport ==
    \A i \in DOMAIN fontCalls :
        LET c == fontCalls[i] IN
        /\ c.state \in {"pending", "resolved", "rejected"}
        /\ c.state # "pending" =>
               /\ c.report.err # Undefined =>
                      c.state = "rejected" /\ c.value = Get(c.report.err)
               /\ (c.report.err = Undefined /\ c.report.fonts # Undefined) =>
                      c.state = "resolved" /\ c.value = Get(c.report.fonts)
               /\ (c.report.err = Undefined /\ c.report.fonts = Undefined) =>
                      c.state = "resolved" /\ c.value = <<>>

C16_Witness ==
    /\ Len(fontCalls) = 3
    /\ fontCalls[1].state = "rejected"
    /\ fontCalls[1].report = [err |-> Some("EIO"), fonts |-> Some(<<"Standard">>)]
    /\ fontCalls[2].state = "resolved"
    /\ fontCalls[2].value = <<"Standard", "Big">>
    /\ fontCalls[3].state = "resolved"
    /\ fontCalls[3].report = [err |-> Undefined, fonts |-> Undefined]
    /\ fontCalls[3].value = <<>>

\* C17: when the launcher has exited, its exit code is the child's exit
\* status whenever the spawn succeeded, whatever became of the child (a child
\* ended by a signal included); and it is 1, after a message, when the runtime
\* could not be started.
C17_ExitCodeForwarded ==
    shim.pc = "exited" =>
        IF shim.result.error = Undefined
        THEN Some(shim.exitCode) = shim.result.status
        ELSE shim.exitCode = 1 /\ shim.stderr # <<>>

\* C17 holds for every child that exited by itself and for every failed
\* spawn.
C17_ExitCodeForwardedUnlessSignalled ==
    (shim.pc = "exited" /\ shim.result.signal = Undefined) =>
        IF shim.result.error = Undefined
        THEN Some(shim.exitCode) = shim.result.status
        ELSE shim.exitCode = 1 /\ shim.stderr # <<>>

\* No request is outstanding.
Quiescent == pending = {}

\* C18: with callbacks delivered in issue order, once each, in every quiescent
\* state the held string was written by the latest request and is that
\* request's outcome: the generator's result for the current text, or the
\* current text on failure or empty result.
C18_QuiescentAgreement ==
    /\ [](Quiescent =>
              /\ writer = issued
              /\ asciiArt \in {Art(props.text), props.text})
    /\ [][\A r \in pending :
              (Delivers(r) /\ Quiescent') =>
                  /\ r.id = issued
                  /\ r.text = props.text
                  /\ asciiArt' = (IF r.outcome.err \/ r.outcome.result = ""
                                  THEN props.text ELSE r.outcome.result)]_vars

C18_Witness ==
    /\ Quiescent
    /\ last = "DeliverInOrder"
    /\ issued = MaxRequests
    /\ writer = MaxRequests
    /\ props.text = "Hi"
    /\ asciiArt = "ART:Hi"

\* A quiescent state in which the held string is not an outcome for the
\* current text: reachable only with out-of-order delivery.
C18_QuiescentDisagreement ==
    /\ Quiescent
    /\ asciiArt \notin {Art(props.text), props.text}

\* The width the sizing directive of the current props resolves to at
\* terminal width tw: the fixed width (or none) when responsive is off, tw when
\* responsive is true, floor(tw * clamp(p, 0, 1)) for a fraction p.
ResolvedWidth(tw) ==
    IF ResponsiveOff THEN props.width
    ELSE IF props.responsive.type = "boolean" THEN Some(tw)
    ELSE Some((tw * Clamped(props.responsive).num)
                  \div Clamped(props.responsive).den)

\* C19: a resize that leaves the resolved width unchanged issues no generator
\* invocation and leaves the held string unchanged.
C19_ResizeSameWidthNoInvocation ==
    [][(terminalWidth' # terminalWidth
            /\ ResolvedWidth(terminalWidth') = ResolvedWidth(terminalWidth)) =>
           /\ issued' = issued
           /\ pending' = pending
           /\ lastCall' = lastCall
           /\ asciiArt' = asciiArt]_vars

C19_Witness ==
    /\ last = "Resize"
    /\ props.responsive = Num(1, 128)
    /\ terminalWidth = 100
    /\ issued = 1
    /\ lastCall.options.width = 0
    /\ writer = 1
    /\ asciiArt = "ART:Hello"

\* C20: whenever the current text of the Figlet component is non-empty, the
\* displayed string is non-empty.
C20_DisplayedNonEmpty ==
    props.text # "" => DisplayText(asciiArt, props) # ""

C20_Witness ==
    /\ writer # 0
    /\ asciiArt = ""
    /\ pending # {}
    /\ props.text = "Hello"
    /\ props.fallback = Some("")
    /\ DisplayText(asciiArt, props) = "Hello"

=============================================================================
